---- MODULE Spec2Model ----
(***************************************************************************)
(* A model of the Telegram/Gemini relay in src/main.py: the model registry *)
(* (get_available_models), the text pipeline (escape_markdown_v2,          *)
(* split_message, format_for_telegram_simple), the session store           *)
(* (user_data) and the handlers that act on it.                            *)
(*                                                                         *)
(* Text is a sequence of one-character strings.  Positions in the string   *)
(* operators are Python's, counted from 0.                                 *)
(***************************************************************************)
EXTENDS Integers, Sequences, FiniteSets, TLC

VARIABLES
    \* ---- split_message, one call (src/main.py:83-100)
    sp_input,       \* the argument text
    max_length,     \* the argument max_length
    text,           \* the local text: what is still to be cut
    chunks,         \* the local chunks
    sp_pc,          \* "call", "loop", "tail", "done"
    \* ---- the model registry (src/main.py:31-32)
    _model_cache,        \* _model_cache: None or a mapping model id -> display name
    _model_cache_time,   \* _model_cache_time
    now,                \* what time.time() reads
    reg,                \* the most recent call of get_available_models, as observed
    \* ---- the session store (src/main.py:30) and the provider's chat objects
    user_data,      \* user id -> None or [chat, model_name]
    chats,          \* the ChatSession objects alive, by handle: [model, history]
    \* ---- the handler invocations in flight, one per task
    pc,             \* the await the handler is suspended at; "idle", "done"
    req,            \* the update handled: [handler, user_id, arg]
    chat_session,   \* chat_handler's local chat_session (0: not bound)
    formatted,      \* the (part_type, chunk) pairs of the reply, in sending order
    delivered,      \* how many of them have been dealt with
    reply_text,     \* chat_handler's local reply_text
    err,            \* the exception being reported, "" for none
    sent,           \* the messages sent for the update: [text, parse_mode, ok]
    result,         \* "" while running, then "returned" or "raised"
    typing,         \* keep_typing's await: "signal", "sleep"; "off": no task runs
    stop_typing,    \* the stop_typing event
    \* ---- format_for_telegram_simple, one call (src/main.py:102-118)
    fm_text,        \* the argument text
    fm_parts,       \* the parts of line 105 the loop has still to visit
    fm_result,      \* the local result
    fm_pc,          \* "call", "loop", "done"
    \* ---- the application (src/main.py:335)
    concurrent_updates   \* whether the application runs handlers of several updates at once

spvars == <<sp_input, max_length, text, chunks, sp_pc>>
regvars == <<_model_cache, _model_cache_time, now, reg>>
storevars == <<user_data, chats>>
taskvars == <<pc, req, chat_session, reply_text, formatted, delivered, err, sent, result>>
typingvars == <<typing, stop_typing>>
fmtvars == <<fm_text, fm_parts, fm_result, fm_pc>>
appvars == <<concurrent_updates>>

----------------------------------------------------------------------------
(* Bounds of the model *)

MaxTextLen == 6      \* split_message is run on every text up to this length
MaxMaxLength == 6    \* and with every max_length from 1 up to this one
MaxClock == 601      \* the clock stops advancing here
MaxChats == 3        \* ChatSession objects alive at one time
MaxTurns == 1        \* exchanges recorded in one ChatSession
MaxWindow == 7       \* the longest max_length of the cuts looked at one by one
MaxTokens == 6       \* the formatter is run on every text of up to this many pieces
MaxReplyTokens == 4  \* the pieces of a reply that is formatted and then cut

----------------------------------------------------------------------------
(* Strings *)

\* The characters the chunker's texts are drawn from: the separators'
\* characters, a letter and the escaping backslash.
NL == "\n"
BS == "\\"
BT == "<backtick>"   \* the backtick, which a TLA+ string cannot hold
SplitAlphabet == {NL, ".", " ", "a"}

\* Every text over alphabet A of length at most n.
RECURSIVE TextsUpTo(_, _)
TextsUpTo(A, n) ==
    IF n = 0 THEN {<<>>}
    ELSE LET shorter == TextsUpTo(A, n - 1)
         IN  shorter \cup {Append(s, c) : s \in {x \in shorter : Len(x) = n - 1}, c \in A}

\* Python's s[a:b] for 0 <= a, b.
Slice(s, a, b) ==
    LET hi == IF b > Len(s) THEN Len(s) ELSE b
    IN  IF a >= hi THEN <<>> ELSE SubSeq(s, a + 1, hi)

\* Python's s[a:].
SliceFrom(s, a) == Slice(s, a, Len(s))

\* Python's s.startswith(p, at).
StartsWithAt(s, p, at) ==
    /\ at + Len(p) <= Len(s)
    /\ \A i \in 1..Len(p) : s[at + i] = p[i]

\* Python's s.rfind(sep, 0, end): the highest position at which sep occurs
\* wholly inside s[0:end], or -1.  The empty sep occurs at min(end, len(s)).
rfind(s, sep, end) ==
    LET hi == IF end > Len(s) THEN Len(s) ELSE end
        at == {p \in 0..hi : p + Len(sep) <= hi /\ StartsWithAt(s, sep, p)}
    IN  IF at = {} THEN -1 ELSE CHOOSE p \in at : \A q \in at : q <= p

\* The concatenation of a sequence of texts.
RECURSIVE Concat(_)
Concat(ss) == IF ss = <<>> THEN <<>> ELSE Head(ss) \o Concat(Tail(ss))

----------------------------------------------------------------------------
(* split_message (src/main.py:83-100) *)

\* The separators tried at each cut, in order (line 91).
Separators == << <<NL, NL>>, <<NL>>, <<".", " ">>, <<" ">>, <<>> >>

\* Lines 90-95: the cut position for a text longer than max: the first
\* separator, in order, whose last occurrence inside text[0:max] starts after
\* max // 2 decides; with none, the cut stays at max.
RECURSIVE SplitPosFrom(_, _, _)
SplitPosFrom(t, max, k) ==
    IF k > Len(Separators) THEN max
    ELSE LET sep == Separators[k]
             pos == rfind(t, sep, max)
         IN  IF pos > max \div 2 THEN pos + Len(sep)
             ELSE SplitPosFrom(t, max, k + 1)

\* A variant that takes the last separator of any kind in the back half of
\* the window, whatever its tier.
SplitPosLatest(t, max) ==
    LET ends == {rfind(t, Separators[k], max) + Len(Separators[k]) :
                    k \in {j \in 1..Len(Separators) :
                              rfind(t, Separators[j], max) > max \div 2}}
    IN  CHOOSE p \in ends : \A q \in ends : q <= p

\* A variant that searches one character past the window, text[0:max + 1].
SplitPosWideWindow(t, max) == SplitPosFrom(t, max + 1, 1)

SplitPos(t, max) == SplitPosFrom(t, max, 1)

\* Lines 96-97: one pass of the while loop.
CutHead(t, max) == Slice(t, 0, SplitPos(t, max))

\* A variant that strips the separator from the start of what is left, as
\* text[split_pos:].lstrip() would.
RECURSIVE LStrip(_)
LStrip(s) == IF s # <<>> /\ Head(s) \in {" ", NL} THEN LStrip(Tail(s)) ELSE s

CutRestStripped(t, max) == LStrip(SliceFrom(t, SplitPos(t, max)))

CutRest(t, max) == SliceFrom(t, SplitPos(t, max))

\* The whole function, as used by chat_handler (line 316).  Defined only
\* where the loop terminates.
RECURSIVE SplitLoop(_, _, _)
SplitLoop(t, max, acc) ==
    IF Len(t) > max
    THEN SplitLoop(CutRest(t, max), max, Append(acc, CutHead(t, max)))
    ELSE IF t # <<>> THEN Append(acc, t) ELSE acc

split_message(t, max) ==
    IF Len(t) <= max THEN <<t>> ELSE SplitLoop(t, max, <<>>)

\* The same function run one statement at a time.

\* Lines 85-86: a text that fits is returned as the only chunk.
SplitReturnWhole ==
    /\ sp_pc = "call"
    /\ Len(text) <= max_length
    /\ chunks' = <<text>>
    /\ sp_pc' = "done"
    /\ UNCHANGED <<sp_input, max_length, text>>
    /\ UNCHANGED <<regvars, storevars, taskvars, typingvars, fmtvars, appvars>>

\* Lines 88-89: otherwise the loop is entered.
SplitEnterLoop ==
    /\ sp_pc = "call"
    /\ Len(text) > max_length
    /\ chunks' = <<>>
    /\ sp_pc' = "loop"
    /\ UNCHANGED <<sp_input, max_length, text>>
    /\ UNCHANGED <<regvars, storevars, taskvars, typingvars, fmtvars, appvars>>

\* Lines 89-97: one pass of the loop.
SplitCut ==
    /\ sp_pc = "loop"
    /\ Len(text) > max_length
    /\ chunks' = Append(chunks, CutHead(text, max_length))
    /\ text' = CutRest(text, max_length)
    /\ UNCHANGED <<sp_input, max_length, sp_pc>>
    /\ UNCHANGED <<regvars, storevars, taskvars, typingvars, fmtvars, appvars>>

\* Line 89, condition false: the loop is left.
SplitLeaveLoop ==
    /\ sp_pc = "loop"
    /\ Len(text) <= max_length
    /\ sp_pc' = "tail"
    /\ UNCHANGED <<sp_input, max_length, text, chunks>>
    /\ UNCHANGED <<regvars, storevars, taskvars, typingvars, fmtvars, appvars>>

\* Lines 98-100: a non-empty tail is the last chunk.
SplitTail ==
    /\ sp_pc = "tail"
    /\ chunks' = IF text # <<>> THEN Append(chunks, text) ELSE chunks
    /\ sp_pc' = "done"
    /\ UNCHANGED <<sp_input, max_length, text>>
    /\ UNCHANGED <<regvars, storevars, taskvars, typingvars, fmtvars, appvars>>

NextSplit ==
    \/ SplitReturnWhole
    \/ SplitEnterLoop
    \/ SplitCut
    \/ SplitLeaveLoop
    \/ SplitTail

----------------------------------------------------------------------------
(* The model registry: get_available_models (src/main.py:36-69) *)

\* Python's None, and a value that is not None.
None == <<>>
Some(x) == <<x>>
Value(o) == o[1]

DEFAULT_MODEL == "gemini-2.0-flash"
MODEL_CACHE_TTL == 300

\* One entry of the provider's listing: m.name is "models/" followed by the
\* id, m.supported_generation_methods a set, m.display_name a string, empty
\* when the provider gives none.
Descriptor(id, methods, display) ==
    [name |-> <<"models/", id>>, supported_generation_methods |-> methods,
     display_name |-> display]

\* The listings the provider may answer with.
ListingFull ==
    << Descriptor("gemini-2.0-flash", {"generateContent", "countTokens"}, "Gemini 2.0 Flash"),
       Descriptor("embedding-001", {"embedContent"}, "Embedding 001"),
       Descriptor("gemini-1.5-pro", {"generateContent"}, "") >>
ListingEmpty == <<>>
Listings == {ListingFull, ListingEmpty}

\* The outcomes of one genai.list_models() iteration: the listing, whether
\* the iteration raises, and the number of entries yielded before it does.
RemoteOutcomes ==
    {[listing |-> L, raises |-> FALSE, yielded |-> Len(L)] : L \in Listings}
    \cup UNION {{[listing |-> L, raises |-> TRUE, yielded |-> k] : k \in 0..Len(L)} :
                  L \in Listings}

\* Line 50: m.name.replace('models/', '').
ModelId(m) == IF m.name[1] = "models/" THEN m.name[2] ELSE m.name[1] \o m.name[2]

\* Line 52: getattr(m, 'display_name', None) or model_id.
DisplayOf(m) == IF m.display_name = "" THEN ModelId(m) ELSE m.display_name

\* d[k] = v on a mapping.
Put(d, k, v) == [x \in DOMAIN d \cup {k} |-> IF x = k THEN v ELSE d[x]]

EmptyMapping == [x \in {} |-> ""]

\* Lines 45-53: the local models after the first n entries of the listing.
RECURSIVE Collected(_, _)
Collected(L, n) ==
    IF n = 0 THEN EmptyMapping
    ELSE LET m == L[n]
             before == Collected(L, n - 1)
         IN  IF "generateContent" \in m.supported_generation_methods
             THEN Put(before, ModelId(m), DisplayOf(m))
             ELSE before

\* Lines 62-66.
FallbackModels ==
    [x \in {"gemini-2.0-flash", "gemini-1.5-pro", "gemini-1.5-flash"} |->
        CASE x = "gemini-2.0-flash" -> "Gemini 2.0 Flash"
          [] x = "gemini-1.5-pro" -> "Gemini 1.5 Pro"
          [] x = "gemini-1.5-flash" -> "Gemini 1.5 Flash"]

\* A variant that serves the cache at the age of the TTL too.
CacheIsFreshInclusive(cache, cache_time, t) ==
    cache # None /\ (t - cache_time) <= MODEL_CACHE_TTL

\* Line 42: the cache is served while it is younger than the TTL.
CacheIsFresh(cache, cache_time, t) ==
    cache # None /\ (t - cache_time) < MODEL_CACHE_TTL

\* Lines 46-56: the try body.  It ends with the cache replaced by the
\* complete local mapping, or raises with the globals untouched.
TryListModels(q) ==
    [raised |-> q.raises, models |-> Collected(q.listing, q.yielded)]

\* A variant that keeps what the listing gave before it failed.
OnListFailureKeepPartial(cache, cache_time, t, partial) ==
    [cache |-> Some(partial), cache_time |-> t, ret |-> partial, raised |-> FALSE]

\* Lines 57-68: the handler of the try body's exception: the cache if there
\* is one, else the fallback set, which becomes the cache.
OnListFailure(cache, cache_time, t, partial) ==
    IF cache # None
    THEN [cache |-> cache, cache_time |-> cache_time, ret |-> Value(cache),
          raised |-> FALSE]
    ELSE [cache |-> Some(FallbackModels), cache_time |-> t, ret |-> FallbackModels,
          raised |-> FALSE]

\* Lines 36-69: the whole function, called at time t when the remote query,
\* if made, ends as q.  The result holds the new globals, the value returned
\* and what the call did.
get_available_models(cache, cache_time, t, q) ==
    IF CacheIsFresh(cache, cache_time, t)
    THEN [cache |-> cache, cache_time |-> cache_time, ret |-> Value(cache),
          queries |-> 0, failed |-> FALSE, raised |-> FALSE]
    ELSE LET try == TryListModels(q)
         IN  IF ~try.raised
             THEN [cache |-> Some(try.models), cache_time |-> t, ret |-> try.models,
                   queries |-> 1, failed |-> FALSE, raised |-> FALSE]
             ELSE LET h == OnListFailure(cache, cache_time, t, try.models)
                  IN  [cache |-> h.cache, cache_time |-> h.cache_time, ret |-> h.ret,
                       queries |-> 1, failed |-> TRUE, raised |-> h.raised]

\* Lines 71-74: models.get(model_id, model_id) on the mapping returned.
get_model_display_name(models, model_id) ==
    IF model_id \in DOMAIN models THEN models[model_id] ELSE model_id

\* A call of get_available_models now, when the remote query, if made, ends
\* as q: what it returns and does, and its effect on the globals.
Listed(q) == get_available_models(_model_cache, _model_cache_time, now, q)

CallRegistry(q) ==
    /\ _model_cache' = Listed(q).cache
    /\ _model_cache_time' = Listed(q).cache_time
    /\ UNCHANGED now

NoCall ==
    [had |-> None, had_time |-> 0, at |-> 0, ret |-> None, queries |-> 0,
     failed |-> FALSE, raised |-> FALSE]

\* A caller lists the models; reg records the call with the cache and the
\* clock it found.
ListModels ==
    /\ \E q \in RemoteOutcomes :
          /\ CallRegistry(q)
          /\ reg' = [had |-> _model_cache, had_time |-> _model_cache_time, at |-> now,
                     ret |-> Some(Listed(q).ret), queries |-> Listed(q).queries,
                     failed |-> Listed(q).failed, raised |-> Listed(q).raised]
    /\ UNCHANGED <<spvars, fmtvars, appvars, storevars, taskvars, typingvars>>

\* Time passes between calls.
TickSteps == {MODEL_CACHE_TTL - 1, MODEL_CACHE_TTL, MODEL_CACHE_TTL + 1}

Tick ==
    /\ \E d \in TickSteps : now + d <= MaxClock /\ now' = now + d
    /\ UNCHANGED <<_model_cache, _model_cache_time, reg>>
    /\ UNCHANGED <<spvars, fmtvars, appvars, storevars, taskvars, typingvars>>

NextRegistry ==
    \/ ListModels
    \/ Tick

----------------------------------------------------------------------------
(* The formatter: escape_markdown_v2 and format_for_telegram_simple         *)
(* (src/main.py:78-118)                                                     *)

\* A variant of the character class with the full stop left out.
special_chars_without_full_stop ==
    {"_", "*", "[", "]", "(", ")", "~", BT, ">", "#", "+", "-", "=", "|",
     "{", "}", "!"}

\* Line 80: the characters MarkdownV2 reserves.
special_chars ==
    {"_", "*", "[", "]", "(", ")", "~", BT, ">", "#", "+", "-", "=", "|",
     "{", "}", ".", "!"}

\* Line 81: every reserved character gets one backslash before it.
RECURSIVE escape_markdown_v2(_)
escape_markdown_v2(s) ==
    IF s = <<>> THEN <<>>
    ELSE (IF Head(s) \in special_chars THEN <<BS, Head(s)>> ELSE <<Head(s)>>)
         \o escape_markdown_v2(Tail(s))

Fence == <<BT, BT, BT>>

\* The characters of the model's texts that \w matches, and those that
\* str.strip() removes.
WordChars == {"a", "b", "c", "H", "i", "t", "h", "e", "r", "_"}
Whitespace == {" ", NL}

\* The first position >= from at which the fence occurs, or -1.
FindFence(s, from) ==
    LET at == {p \in from..Len(s) : StartsWithAt(s, Fence, p)}
    IN  IF at = {} THEN -1 ELSE CHOOSE p \in at : \A q \in at : p <= q

\* Line 105: re.split on the fenced-block pattern, with DOTALL.  A match starts
\* at the first fence that has another fence at or after its end and runs to
\* the first such fence; the text before it, the match and the split of the
\* text after it are the parts.  With no match the text is the only part.
RECURSIVE SplitCodeBlocks(_)
SplitCodeBlocks(s) ==
    LET open == FindFence(s, 0)
        close == IF open = -1 THEN -1 ELSE FindFence(s, open + 3)
    IN  IF close = -1 THEN <<s>>
        ELSE <<Slice(s, 0, open), Slice(s, open, close + 3)>>
             \o SplitCodeBlocks(SliceFrom(s, close + 3))

\* The position after the longest run of \w characters starting at p.
RECURSIVE SkipWord(_, _)
SkipWord(s, p) ==
    IF p < Len(s) /\ s[p + 1] \in WordChars THEN SkipWord(s, p + 1) ELSE p

\* Line 109: re.match of the fenced-block pattern on a part that starts with the
\* fence: None when no fence closes it, else group 2, the text between the
\* tag (and one newline after it) and the closing fence.
MatchCodeBlock(part) ==
    LET tag_end == SkipWord(part, 3)
        body_start == IF tag_end < Len(part) /\ part[tag_end + 1] = NL
                      THEN tag_end + 1 ELSE tag_end
        close == FindFence(part, body_start)
    IN  IF close = -1 THEN None ELSE Some(Slice(part, body_start, close))

\* A variant that takes one newline off the end, and no more.
RStripOneNewline(s) ==
    IF s # <<>> /\ s[Len(s)] = NL THEN SubSeq(s, 1, Len(s) - 1) ELSE s

\* Line 112: code.rstrip('\n').
RECURSIVE RStripNewlines(_)
RStripNewlines(s) ==
    IF s # <<>> /\ s[Len(s)] = NL THEN RStripNewlines(SubSeq(s, 1, Len(s) - 1)) ELSE s

\* Line 115: part.strip() is not empty.
HasContent(s) == \E i \in 1..Len(s) : s[i] \notin Whitespace

\* Lines 107-116: what one part adds to result.
FormatPart(part) ==
    IF StartsWithAt(part, Fence, 0)
    THEN LET match == MatchCodeBlock(part)
         IN  IF match # None
             THEN << [part_type |-> "code",
                      text |-> Fence \o <<NL>>
                               \o escape_markdown_v2(RStripNewlines(Value(match)))
                               \o <<NL>> \o Fence] >>
             ELSE <<>>
    ELSE IF HasContent(part)
         THEN << [part_type |-> "text", text |-> escape_markdown_v2(part)] >>
         ELSE <<>>

RECURSIVE FormatParts(_)
FormatParts(parts) ==
    IF parts = <<>> THEN <<>> ELSE FormatPart(Head(parts)) \o FormatParts(Tail(parts))

\* Lines 102-118.
format_for_telegram_simple(s) == FormatParts(SplitCodeBlocks(s))

\* The same function run one statement at a time.

\* Lines 104-105: result is empty and the text is split into its parts.
FormatSplit ==
    /\ fm_pc = "call"
    /\ fm_result' = <<>>
    /\ fm_parts' = SplitCodeBlocks(fm_text)
    /\ fm_pc' = "loop"
    /\ UNCHANGED fm_text
    /\ UNCHANGED <<spvars, regvars, storevars, taskvars, typingvars, appvars>>

\* Lines 107-116: the loop visits the next part.
FormatNextPart ==
    /\ fm_pc = "loop"
    /\ fm_parts # <<>>
    /\ fm_result' = fm_result \o FormatPart(Head(fm_parts))
    /\ fm_parts' = Tail(fm_parts)
    /\ UNCHANGED <<fm_text, fm_pc>>
    /\ UNCHANGED <<spvars, regvars, storevars, taskvars, typingvars, appvars>>

\* Line 118: the loop is over and result is returned.
FormatReturn ==
    /\ fm_pc = "loop"
    /\ fm_parts = <<>>
    /\ fm_pc' = "done"
    /\ UNCHANGED <<fm_text, fm_parts, fm_result>>
    /\ UNCHANGED <<spvars, regvars, storevars, taskvars, typingvars, appvars>>

NextFormat ==
    \/ FormatSplit
    \/ FormatNextPart
    \/ FormatReturn

\* The texts the formatter is run on: up to MaxTokens pieces, each a fence, a
\* backtick, a newline, a letter, a full stop or a space.
FormatTokens == {Fence, <<BT>>, <<NL>>, <<"a">>, <<".">>, <<" ">>}

RECURSIVE TokenTexts(_)
TokenTexts(n) ==
    IF n = 0 THEN {<<>>}
    ELSE LET shorter == TokenTexts(n - 1)
         IN  shorter \cup {s \o k : s \in shorter, k \in FormatTokens}

----------------------------------------------------------------------------
(* The session store and the handlers (src/main.py:133-140, 163-332)        *)

Users == {"u1", "u2"}
Tasks == {"t1", "t2"}

\* The model names a user may ask for.  genai.GenerativeModel(name) raises
\* for the names the SDK rejects and for no other.
ModelNames == {"gemini-2.0-flash", "gemini-1.5-pro", "no-such-model"}
RejectedNames == {"no-such-model"}
ConstructorRaises(name) == name \in RejectedNames

\* The replies the provider may give to a turn.
ReplyProse == <<"H", "i", " ", "*", "*", "t", "h", "e", "r", "e", "*", "*", "!">>
ReplyWithCode == <<"a", ".", NL, BT, BT, BT, "c", NL, "b", NL, BT, BT, BT>>
ReplyBlank == <<" ">>
Replies == {ReplyProse, ReplyWithCode, ReplyBlank}

\* What the handlers send, apart from the reply's chunks.
ErrorNotice(e) == <<"Error: ", e>>                    \* line 332
SwitchFailedText(e) == <<"Switch failed: ", e>>       \* lines 257, 276
SwitchedText(display) == <<"Switched to: ", display>> \* lines 253, 274
ClearedText == <<"Memory cleared">>                   \* line 282
StartedText(display) == <<"Gemini Bot Started", display>>            \* lines 171-176
ModelsText(total, display) == <<"Available Models", total, display>> \* line 230
NoModelsText == <<"Failed to fetch models">>          \* line 210

MARKDOWN_V2 == "MarkdownV2"
PlainText == ""

\* Line 83: the default max_length.
DEFAULT_MAX_LENGTH == 4000

\* model.start_chat(history=[]): a new ChatSession on the model.
StartChat(name) == [model |-> name, history |-> <<>>]

\* A ChatSession object is named by its handle, as a Python object is by its
\* address: a new object takes a free handle, and an object that neither
\* user_data nor a handler's chat_session refers to is reclaimed.
Handles == 1..MaxChats
FreeHandles == {h \in Handles : chats[h] = None}
NewHandle == CHOOSE h \in FreeHandles : \A g \in FreeHandles : h <= g

Referenced(data, locals) ==
    {Value(data[u]).chat : u \in {v \in Users : data[v] # None}}
    \cup {locals[t] : t \in Tasks}

Reclaim(objects, data, locals) ==
    [h \in Handles |-> IF h \in Referenced(data, locals) THEN objects[h] ELSE None]

Session(u) == user_data[u]
HasSession(u) == user_data[u] # None

\* A variant without the membership test of line 135: every call makes a
\* new default session.
get_user_chat_always_new(u) ==
    /\ FreeHandles # {}
    /\ user_data' = [user_data EXCEPT
                       ![u] = Some([chat |-> NewHandle, model_name |-> DEFAULT_MODEL])]
    /\ chats' = Reclaim([chats EXCEPT ![NewHandle] = Some(StartChat(DEFAULT_MODEL))],
                        user_data', chat_session)

\* Lines 133-140: get_user_chat(user_id), with the default model_name.
get_user_chat(u) ==
    IF ~HasSession(u)
    THEN /\ FreeHandles # {}
         /\ chats' = [chats EXCEPT ![NewHandle] = Some(StartChat(DEFAULT_MODEL))]
         /\ user_data' = [user_data EXCEPT
                            ![u] = Some([chat |-> NewHandle, model_name |-> DEFAULT_MODEL])]
    ELSE UNCHANGED <<user_data, chats>>

\* A variant that keeps one session for every user: the new session
\* replaces the session of each user that has one.
ReplaceSessionOfEveryone(u, name) ==
    /\ FreeHandles # {}
    /\ user_data' = [v \in Users |->
                       IF v = u \/ HasSession(v)
                       THEN Some([chat |-> NewHandle, model_name |-> name])
                       ELSE None]
    /\ chats' = Reclaim([chats EXCEPT ![NewHandle] = Some(StartChat(name))],
                        user_data', chat_session)

\* A variant that starts the new chat with the history of the one replaced.
ReplaceSessionKeepHistory(u, name) ==
    LET old == IF HasSession(u)
               THEN Value(chats[Value(user_data[u]).chat]).history
               ELSE <<>>
    IN  /\ FreeHandles # {}
        /\ user_data' = [user_data EXCEPT
                           ![u] = Some([chat |-> NewHandle, model_name |-> name])]
        /\ chats' = Reclaim([chats EXCEPT
                                ![NewHandle] = Some([model |-> name, history |-> old])],
                            user_data', chat_session)

\* Lines 247-250 and 269-272: the session is replaced by a new one on the
\* model asked for.
ReplaceSession(u, name) ==
    /\ FreeHandles # {}
    /\ user_data' = [user_data EXCEPT
                       ![u] = Some([chat |-> NewHandle, model_name |-> name])]
    /\ chats' = Reclaim([chats EXCEPT ![NewHandle] = Some(StartChat(name))],
                        user_data', chat_session)

\* Line 280: the model name of the user's session, the default without one.
CurrentModelName(u) ==
    IF HasSession(u) THEN Value(user_data[u]).model_name ELSE DEFAULT_MODEL

\* A variant that resets to the default model.
ResetSessionToDefault(u) == ReplaceSession(u, DEFAULT_MODEL)

\* Line 281: the session is replaced by a new one on the same model.
ResetSession(u) == ReplaceSession(u, CurrentModelName(u))

\* A message handed to the platform: its send is in flight until the
\* platform accepts it ("ok") or the send raises ("rejected").
Message(txt, mode, status) == [text |-> txt, parse_mode |-> mode, status |-> status]

\* await ...reply_text(txt, parse_mode=mode), to the suspension: the message
\* follows those of log.
SendAfter(t, log, txt, mode) ==
    sent' = [sent EXCEPT ![t] = Append(log, Message(txt, mode, "sending"))]

SendNext(t, txt, mode) == SendAfter(t, sent[t], txt, mode)

\* The send in flight ends.
MarkLast(log, status) == [log EXCEPT ![Len(log)].status = status]

SendEnds(t, status) == sent' = [sent EXCEPT ![t] = MarkLast(@, status)]

SendOutcomes == {"ok", "rejected"}

NoUpdate == [handler |-> "", user_id |-> "", arg |-> ""]

\* Line 335: the application is built without concurrent_updates, so it takes
\* the next update when the handler of the last one has ended; an application
\* built with concurrent_updates takes it when it arrives.
OneAtATime == concurrent_updates \/ \A o \in Tasks : pc[o] = "idle"

\* An update arrives and a free task starts its handler.
Begin(t, h, u, arg) ==
    /\ OneAtATime
    /\ pc[t] = "idle"
    /\ typing[t] = "off"
    /\ req' = [req EXCEPT ![t] = [handler |-> h, user_id |-> u, arg |-> arg]]
    /\ result' = [result EXCEPT ![t] = ""]
    /\ formatted' = [formatted EXCEPT ![t] = <<>>]
    /\ delivered' = [delivered EXCEPT ![t] = 0]
    /\ reply_text' = [reply_text EXCEPT ![t] = <<>>]

\* The handlers other than chat_handler bind no chat_session.
BeginCommand(t, h, u, arg) ==
    /\ Begin(t, h, u, arg)
    /\ chat_session' = [chat_session EXCEPT ![t] = 0]

\* The handler ends: it returns, or the exception leaves it.
Finish(t, how) ==
    /\ pc' = [pc EXCEPT ![t] = "done"]
    /\ result' = [result EXCEPT ![t] = how]

HowEnded(status) == IF status = "ok" THEN "returned" ELSE "raised"

\* Lines 163-176, to the await: start.
Start(t, u) ==
    /\ BeginCommand(t, "start", u, "")
    /\ get_user_chat(u)
    /\ \E q \in RemoteOutcomes :
          /\ CallRegistry(q)
          /\ SendAfter(t, <<>>,
                       StartedText(get_model_display_name(
                           Listed(q).ret, Value(user_data'[u]).model_name)),
                       PlainText)
    /\ UNCHANGED reg
    /\ pc' = [pc EXCEPT ![t] = "reply"]
    /\ err' = [err EXCEPT ![t] = ""]
    /\ UNCHANGED <<typingvars, spvars, fmtvars, appvars>>

\* Lines 201-233, to the await: models_cmd, which /model without an argument
\* runs too (lines 262-264).
ModelsCmd(t, u) ==
    /\ BeginCommand(t, "models_cmd", u, "")
    /\ \E q \in RemoteOutcomes :
          LET models == Listed(q).ret
              current_model == CurrentModelName(u)
          IN  /\ CallRegistry(q)
              /\ IF DOMAIN models = {}
                 THEN SendAfter(t, <<>>, NoModelsText, PlainText)
                 ELSE SendAfter(t, <<>>,
                                ModelsText(Cardinality(DOMAIN models),
                                           get_model_display_name(models, current_model)),
                                MARKDOWN_V2)
    /\ UNCHANGED reg
    /\ pc' = [pc EXCEPT ![t] = "reply"]
    /\ err' = [err EXCEPT ![t] = ""]
    /\ UNCHANGED <<storevars, typingvars, spvars, fmtvars, appvars>>

\* Lines 278-282, to the await: new_chat.
NewChat(t, u) ==
    /\ BeginCommand(t, "new_chat", u, "")
    /\ ResetSession(u)
    /\ SendAfter(t, <<>>, ClearedText, PlainText)
    /\ pc' = [pc EXCEPT ![t] = "reply"]
    /\ err' = [err EXCEPT ![t] = ""]
    /\ UNCHANGED <<regvars, typingvars, spvars, fmtvars, appvars>>

\* The reply of start, models_cmd or new_chat ends, and with it the handler.
ReplyEnds(t) ==
    /\ pc[t] = "reply"
    /\ \E status \in SendOutcomes :
          /\ SendEnds(t, status)
          /\ Finish(t, HowEnded(status))
    /\ UNCHANGED <<req, chat_session, reply_text, formatted, delivered, err>>
    /\ UNCHANGED <<storevars, regvars, typingvars, spvars, fmtvars, appvars>>

\* A variant that writes the session before the name is validated: the
\* session is replaced, and then the constructor raises.
TrySwitchWriteFirst(t, u, new_model, log) ==
    /\ ReplaceSession(u, new_model)
    /\ IF ConstructorRaises(new_model)
       THEN /\ err' = [err EXCEPT ![t] = "invalid model"]
            /\ SendAfter(t, log, SwitchFailedText("invalid model"), PlainText)
            /\ pc' = [pc EXCEPT ![t] = "switch_failed"]
            /\ UNCHANGED regvars
       ELSE /\ \E q \in RemoteOutcomes :
                  /\ CallRegistry(q)
                  /\ SendAfter(t, log,
                               SwitchedText(get_model_display_name(Listed(q).ret, new_model)),
                               MARKDOWN_V2)
            /\ UNCHANGED reg
            /\ pc' = [pc EXCEPT ![t] = "confirm"]
            /\ err' = [err EXCEPT ![t] = ""]

\* Lines 245-257 and 267-276, from the try to the next await: the handle is
\* made once to validate the name; the session is replaced; the display name
\* is looked up and the confirmation sent.  When the constructor raises, the
\* except clause sends the failure text instead.  log holds the messages the
\* handler has sent before.
TrySwitch(t, u, new_model, log) ==
    IF ConstructorRaises(new_model)
    THEN /\ err' = [err EXCEPT ![t] = "invalid model"]
         /\ SendAfter(t, log, SwitchFailedText("invalid model"), PlainText)
         /\ pc' = [pc EXCEPT ![t] = "switch_failed"]
         /\ UNCHANGED <<storevars, regvars>>
    ELSE /\ ReplaceSession(u, new_model)
         /\ \E q \in RemoteOutcomes :
               /\ CallRegistry(q)
               /\ SendAfter(t, log,
                            SwitchedText(get_model_display_name(Listed(q).ret, new_model)),
                            MARKDOWN_V2)
         /\ UNCHANGED reg
         /\ pc' = [pc EXCEPT ![t] = "confirm"]
         /\ err' = [err EXCEPT ![t] = ""]

\* Lines 259-276, to the await: switch_model with an argument.
SwitchModel(t, u, new_model_name) ==
    /\ BeginCommand(t, "switch_model", u, new_model_name)
    /\ TrySwitch(t, u, new_model_name, <<>>)
    /\ UNCHANGED <<typingvars, spvars, fmtvars, appvars>>

\* Lines 235-238, to the await of query.answer(): model_callback.
ModelCallback(t, u, new_model) ==
    /\ BeginCommand(t, "model_callback", u, new_model)
    /\ pc' = [pc EXCEPT ![t] = "answer"]
    /\ sent' = [sent EXCEPT ![t] = <<>>]
    /\ err' = [err EXCEPT ![t] = ""]
    /\ UNCHANGED <<storevars, regvars, typingvars, spvars, fmtvars, appvars>>

\* Lines 238-255: query.answer() returns and the switch is tried.
AnswerReturns(t) ==
    /\ pc[t] = "answer"
    /\ TrySwitch(t, req[t].user_id, req[t].arg, sent[t])
    /\ UNCHANGED <<req, chat_session, reply_text, formatted, delivered, result>>
    /\ UNCHANGED <<typingvars, spvars, fmtvars, appvars>>

\* Line 238: query.answer() raises, outside the try: the handler is left.
AnswerRaises(t) ==
    /\ pc[t] = "answer"
    /\ Finish(t, "raised")
    /\ err' = [err EXCEPT ![t] = "answer failed"]
    /\ UNCHANGED <<req, chat_session, reply_text, formatted, delivered, sent>>
    /\ UNCHANGED <<storevars, regvars, typingvars, spvars, fmtvars, appvars>>

\* Lines 252-255, 274: the confirmation is accepted and the handler returns.
ConfirmAccepted(t) ==
    /\ pc[t] = "confirm"
    /\ SendEnds(t, "ok")
    /\ Finish(t, "returned")
    /\ UNCHANGED <<req, chat_session, reply_text, formatted, delivered, err>>
    /\ UNCHANGED <<storevars, regvars, typingvars, spvars, fmtvars, appvars>>

\* Lines 256-257, 275-276: the confirmation's send raises inside the try; the
\* except clause sends the failure text.
ConfirmRejected(t) ==
    /\ pc[t] = "confirm"
    /\ SendAfter(t, MarkLast(sent[t], "rejected"),
                 SwitchFailedText("send failed"), PlainText)
    /\ err' = [err EXCEPT ![t] = "send failed"]
    /\ pc' = [pc EXCEPT ![t] = "switch_failed"]
    /\ UNCHANGED <<req, chat_session, reply_text, formatted, delivered, result>>
    /\ UNCHANGED <<storevars, regvars, typingvars, spvars, fmtvars, appvars>>

\* Lines 257, 276: the failure text's send ends, and with it the handler.
SwitchFailedEnds(t) ==
    /\ pc[t] = "switch_failed"
    /\ \E status \in SendOutcomes :
          /\ SendEnds(t, status)
          /\ Finish(t, HowEnded(status))
    /\ UNCHANGED <<req, chat_session, reply_text, formatted, delivered, err>>
    /\ UNCHANGED <<storevars, regvars, typingvars, spvars, fmtvars, appvars>>

\* Lines 315-317: the chunks of every part, in the order they are sent.
RECURSIVE TagChunks(_, _)
TagChunks(part_type, cs) ==
    IF cs = <<>> THEN <<>>
    ELSE << [part_type |-> part_type, text |-> Head(cs)] >>
         \o TagChunks(part_type, Tail(cs))

RECURSIVE ChunksOf(_)
ChunksOf(parts) ==
    IF parts = <<>> THEN <<>>
    ELSE TagChunks(Head(parts).part_type,
                   split_message(Head(parts).text, DEFAULT_MAX_LENGTH))
         \o ChunksOf(Tail(parts))

\* Lines 322, 327: chunk.replace('\\', '').
StripBackslashes(chunk) ==
    LET Kept(c) == c # BS IN SelectSeq(chunk, Kept)

\* Lines 284-295, to the first await: chat_handler binds the session's chat
\* and creates the typing task, which runs when the handler first suspends:
\* it finds the event clear and sends its first chat action (lines 123-125).
ChatHandler(t, u, photo) ==
    /\ Begin(t, "chat_handler", u, "")
    /\ get_user_chat(u)
    /\ chat_session' = [chat_session EXCEPT ![t] = Value(user_data'[u]).chat]
    /\ stop_typing' = [stop_typing EXCEPT ![t] = FALSE]
    /\ typing' = [typing EXCEPT ![t] = "signal"]
    /\ pc' = [pc EXCEPT ![t] = IF photo THEN "get_file" ELSE "send_message"]
    /\ sent' = [sent EXCEPT ![t] = <<>>]
    /\ err' = [err EXCEPT ![t] = ""]
    /\ UNCHANGED <<regvars, spvars, fmtvars, appvars>>

\* Lines 329-332, to the await: the except clause sets the stop event and
\* sends the notice.  log holds the messages sent before.
Fail(t, e, log) ==
    /\ stop_typing' = [stop_typing EXCEPT ![t] = TRUE]
    /\ err' = [err EXCEPT ![t] = e]
    /\ SendAfter(t, log, ErrorNotice(e), PlainText)
    /\ pc' = [pc EXCEPT ![t] = "error_notice"]

\* Line 301: get_file returns.
GetFileReturns(t) ==
    /\ pc[t] = "get_file"
    /\ pc' = [pc EXCEPT ![t] = "download"]
    /\ UNCHANGED <<req, chat_session, reply_text, formatted, delivered, err, sent, result>>
    /\ UNCHANGED <<storevars, regvars, typingvars, spvars, fmtvars, appvars>>

\* Line 302: download_as_bytearray returns; the model call is issued.
DownloadReturns(t) ==
    /\ pc[t] = "download"
    /\ pc' = [pc EXCEPT ![t] = "send_message"]
    /\ UNCHANGED <<req, chat_session, reply_text, formatted, delivered, err, sent, result>>
    /\ UNCHANGED <<storevars, regvars, typingvars, spvars, fmtvars, appvars>>

\* Lines 301-302: either raises.
PhotoRaises(t) ==
    /\ pc[t] \in {"get_file", "download"}
    /\ Fail(t, "photo failed", sent[t])
    /\ UNCHANGED <<req, chat_session, reply_text, formatted, delivered, result>>
    /\ UNCHANGED <<storevars, regvars, typing, spvars, fmtvars, appvars>>

\* Lines 313-320, to the await: the reply is formatted and cut, and the first
\* chunk sent; with nothing to send the handler returns.
StartDelivery(t, reply) ==
    LET out == ChunksOf(format_for_telegram_simple(reply))
    IN  /\ formatted' = [formatted EXCEPT ![t] = out]
        /\ IF out = <<>>
           THEN /\ Finish(t, "returned")
                /\ UNCHANGED sent
           ELSE /\ SendNext(t, out[1].text, MARKDOWN_V2)
                /\ pc' = [pc EXCEPT ![t] = "chunk"]
                /\ UNCHANGED result

\* A variant that records the exchange on the session the store holds when
\* the model call returns, not on the chat bound at line 291.
ModelRespondsOnStoredSession(t) ==
    /\ pc[t] = "send_message"
    /\ Len(Value(chats[Value(user_data[req[t].user_id]).chat]).history) < 2 * MaxTurns
    /\ \E reply \in Replies :
          /\ reply_text' = [reply_text EXCEPT ![t] = reply]
          /\ IF typing[t] = "off"
             THEN StartDelivery(t, reply)
             ELSE /\ pc' = [pc EXCEPT ![t] = "join"]
                  /\ UNCHANGED <<formatted, sent, result>>
    /\ chats' = [chats EXCEPT ![Value(user_data[req[t].user_id]).chat] =
                    Some([Value(@) EXCEPT !.history = @ \o <<"user", "model">>])]
    /\ stop_typing' = [stop_typing EXCEPT ![t] = TRUE]
    /\ UNCHANGED <<req, chat_session, delivered, err>>
    /\ UNCHANGED <<user_data, regvars, typing, spvars, fmtvars, appvars>>

\* Lines 306-311: the model call returns: the exchange is in the chat's
\* history; the stop event is set and the typing task awaited, which
\* suspends the handler unless the task has ended.
ModelResponds(t) ==
    /\ pc[t] = "send_message"
    /\ Len(Value(chats[chat_session[t]]).history) < 2 * MaxTurns
    /\ \E reply \in Replies :
          /\ reply_text' = [reply_text EXCEPT ![t] = reply]
          /\ IF typing[t] = "off"
             THEN StartDelivery(t, reply)
             ELSE /\ pc' = [pc EXCEPT ![t] = "join"]
                  /\ UNCHANGED <<formatted, sent, result>>
    /\ chats' = [chats EXCEPT ![chat_session[t]] =
                    Some([Value(@) EXCEPT !.history = @ \o <<"user", "model">>])]
    /\ stop_typing' = [stop_typing EXCEPT ![t] = TRUE]
    /\ UNCHANGED <<req, chat_session, delivered, err>>
    /\ UNCHANGED <<user_data, regvars, typing, spvars, fmtvars, appvars>>

\* A variant whose except clause also starts the user's session afresh.
ModelRaisesResetsSession(t) ==
    /\ pc[t] = "send_message"
    /\ Fail(t, "model call failed", sent[t])
    /\ ResetSession(req[t].user_id)
    /\ UNCHANGED <<req, chat_session, reply_text, formatted, delivered, result>>
    /\ UNCHANGED <<regvars, typing, spvars, fmtvars, appvars>>

\* Line 306: the model call raises; the chat's history is as it was.
ModelRaises(t) ==
    /\ pc[t] = "send_message"
    /\ Fail(t, "model call failed", sent[t])
    /\ UNCHANGED <<req, chat_session, reply_text, formatted, delivered, result>>
    /\ UNCHANGED <<storevars, regvars, typing, spvars, fmtvars, appvars>>

\* A variant that goes on to the delivery without awaiting the typing task.
TypingJoinedWithoutWaiting(t) ==
    /\ pc[t] = "join"
    /\ StartDelivery(t, reply_text[t])
    /\ UNCHANGED <<req, chat_session, reply_text, delivered, err>>
    /\ UNCHANGED <<storevars, regvars, typingvars, spvars, fmtvars, appvars>>

\* Line 311: the typing task has ended and the handler goes on.
TypingJoined(t) ==
    /\ pc[t] = "join"
    /\ typing[t] = "off"
    /\ StartDelivery(t, reply_text[t])
    /\ UNCHANGED <<req, chat_session, reply_text, delivered, err>>
    /\ UNCHANGED <<storevars, regvars, typingvars, spvars, fmtvars, appvars>>

\* Lines 317-327: a chunk has been dealt with, its last send being accepted:
\* the next chunk is sent formatted, or the handler returns after the last.
NextChunk(t) ==
    LET n == delivered[t] + 1
    IN  /\ delivered' = [delivered EXCEPT ![t] = n]
        /\ IF n < Len(formatted[t])
           THEN /\ SendAfter(t, MarkLast(sent[t], "ok"), formatted[t][n + 1].text,
                             MARKDOWN_V2)
                /\ pc' = [pc EXCEPT ![t] = "chunk"]
                /\ UNCHANGED result
           ELSE /\ SendEnds(t, "ok")
                /\ Finish(t, "returned")

\* Lines 320, 325: the platform accepts the formatted chunk.
ChunkAccepted(t) ==
    /\ pc[t] = "chunk"
    /\ NextChunk(t)
    /\ UNCHANGED <<req, chat_session, reply_text, formatted, err>>
    /\ UNCHANGED <<storevars, regvars, typingvars, spvars, fmtvars, appvars>>

\* A variant that falls back for the whole reply: it starts again from the
\* first chunk, sent as plain text.
ChunkRejectedStartsOver(t) ==
    /\ pc[t] = "chunk"
    /\ SendAfter(t, MarkLast(sent[t], "rejected"),
                 StripBackslashes(formatted[t][1].text), PlainText)
    /\ delivered' = [delivered EXCEPT ![t] = 0]
    /\ pc' = [pc EXCEPT ![t] = "fallback"]
    /\ UNCHANGED <<req, chat_session, reply_text, formatted, err, result>>
    /\ UNCHANGED <<storevars, regvars, typingvars, spvars, fmtvars, appvars>>

\* Lines 321-322, 326-327: the platform rejects the formatted chunk: the same
\* chunk is sent as plain text, its backslashes removed.
ChunkRejected(t) ==
    /\ pc[t] = "chunk"
    /\ SendAfter(t, MarkLast(sent[t], "rejected"),
                 StripBackslashes(formatted[t][delivered[t] + 1].text), PlainText)
    /\ pc' = [pc EXCEPT ![t] = "fallback"]
    /\ UNCHANGED <<req, chat_session, reply_text, formatted, delivered, err, result>>
    /\ UNCHANGED <<storevars, regvars, typingvars, spvars, fmtvars, appvars>>

\* Lines 322, 327: the plain re-send is accepted.
FallbackAccepted(t) ==
    /\ pc[t] = "fallback"
    /\ NextChunk(t)
    /\ UNCHANGED <<req, chat_session, reply_text, formatted, err>>
    /\ UNCHANGED <<storevars, regvars, typingvars, spvars, fmtvars, appvars>>

\* Lines 322, 327, 329: the plain re-send raises too, into the except clause.
FallbackRejected(t) ==
    /\ pc[t] = "fallback"
    /\ Fail(t, "send failed", MarkLast(sent[t], "rejected"))
    /\ UNCHANGED <<req, chat_session, reply_text, formatted, delivered, result>>
    /\ UNCHANGED <<storevars, regvars, typing, spvars, fmtvars, appvars>>

\* Line 332: the notice's send ends, and with it the handler.
ErrorNoticeEnds(t) ==
    /\ pc[t] = "error_notice"
    /\ \E status \in SendOutcomes :
          /\ SendEnds(t, status)
          /\ Finish(t, HowEnded(status))
    /\ UNCHANGED <<req, chat_session, reply_text, formatted, delivered, err>>
    /\ UNCHANGED <<storevars, regvars, typingvars, spvars, fmtvars, appvars>>

----------------------------------------------------------------------------
(* keep_typing (src/main.py:121-131), the task chat_handler creates *)

\* Lines 125-126: the chat action is sent and the task sleeps.
TypingSignalled(t) ==
    /\ typing[t] = "signal"
    /\ typing' = [typing EXCEPT ![t] = "sleep"]
    /\ UNCHANGED <<stop_typing, taskvars, storevars, regvars, spvars, fmtvars, appvars>>

\* Lines 129-131: the chat action raises and the task ends.
TypingSignalRaises(t) ==
    /\ typing[t] = "signal"
    /\ typing' = [typing EXCEPT ![t] = "off"]
    /\ UNCHANGED <<stop_typing, taskvars, storevars, regvars, spvars, fmtvars, appvars>>

\* A variant of the typing task's loop test that does not look at the event.
TypingWakesWhateverTheEvent(t) ==
    /\ typing[t] = "sleep"
    /\ typing' = [typing EXCEPT ![t] = "signal"]
    /\ UNCHANGED <<stop_typing, taskvars, storevars, regvars, spvars, fmtvars, appvars>>

\* Lines 126, 123-125: the sleep is over; with the event set the task ends,
\* else it sends the next chat action.
TypingWakes(t) ==
    /\ typing[t] = "sleep"
    /\ typing' = [typing EXCEPT ![t] = IF stop_typing[t] THEN "off" ELSE "signal"]
    /\ UNCHANGED <<stop_typing, taskvars, storevars, regvars, spvars, fmtvars, appvars>>

----------------------------------------------------------------------------
(* The application's loop (src/main.py:335-366) *)

\* The handler has ended; the application drops the update and is free to
\* take the next one.
Release(t) ==
    /\ pc[t] = "done"
    /\ pc' = [pc EXCEPT ![t] = "idle"]
    /\ req' = [req EXCEPT ![t] = NoUpdate]
    /\ chat_session' = [chat_session EXCEPT ![t] = 0]
    /\ reply_text' = [reply_text EXCEPT ![t] = <<>>]
    /\ formatted' = [formatted EXCEPT ![t] = <<>>]
    /\ delivered' = [delivered EXCEPT ![t] = 0]
    /\ err' = [err EXCEPT ![t] = ""]
    /\ sent' = [sent EXCEPT ![t] = <<>>]
    /\ result' = [result EXCEPT ![t] = ""]
    /\ chats' = Reclaim(chats, user_data, chat_session')
    /\ UNCHANGED <<user_data, regvars, typingvars, spvars, fmtvars, appvars>>

----------------------------------------------------------------------------
(* The specifications *)

vars == <<spvars, regvars, storevars, taskvars, typingvars, fmtvars, appvars>>

\* The handlers, one update at a time, with the typing tasks interleaved at
\* the awaits.
Init ==
    /\ user_data = [u \in Users |-> None]           \* line 30
    /\ chats = [h \in Handles |-> None]
    /\ pc = [t \in Tasks |-> "idle"]
    /\ req = [t \in Tasks |-> NoUpdate]
    /\ chat_session = [t \in Tasks |-> 0]
    /\ reply_text = [t \in Tasks |-> <<>>]
    /\ formatted = [t \in Tasks |-> <<>>]
    /\ delivered = [t \in Tasks |-> 0]
    /\ err = [t \in Tasks |-> ""]
    /\ sent = [t \in Tasks |-> <<>>]
    /\ result = [t \in Tasks |-> ""]
    /\ typing = [t \in Tasks |-> "off"]
    /\ stop_typing = [t \in Tasks |-> FALSE]
    /\ _model_cache = None                          \* line 31
    /\ _model_cache_time = 0                        \* line 32
    /\ now = 0
    /\ reg = NoCall
    /\ sp_input = <<>>
    /\ max_length = DEFAULT_MAX_LENGTH
    /\ text = <<>>
    /\ chunks = <<>>
    /\ sp_pc = "done"
    /\ fm_text = <<>>
    /\ fm_parts = <<>>
    /\ fm_result = <<>>
    /\ fm_pc = "done"
    /\ concurrent_updates = FALSE                   \* line 335: not asked for

\* An update is dispatched to its handler (lines 340-363), or a handler or a
\* typing task goes on from its await.
Next ==
    \E t \in Tasks :
        \/ \E u \in Users : Start(t, u)
        \/ \E u \in Users : ModelsCmd(t, u)
        \/ \E u \in Users : NewChat(t, u)
        \/ \E u \in Users, name \in ModelNames : SwitchModel(t, u, name)
        \/ \E u \in Users, name \in ModelNames : ModelCallback(t, u, name)
        \/ \E u \in Users, photo \in BOOLEAN : ChatHandler(t, u, photo)
        \/ ReplyEnds(t)
        \/ AnswerReturns(t)
        \/ AnswerRaises(t)
        \/ ConfirmAccepted(t)
        \/ ConfirmRejected(t)
        \/ SwitchFailedEnds(t)
        \/ GetFileReturns(t)
        \/ DownloadReturns(t)
        \/ PhotoRaises(t)
        \/ ModelResponds(t)
        \/ ModelRaises(t)
        \/ TypingJoined(t)
        \/ ChunkAccepted(t)
        \/ ChunkRejected(t)
        \/ FallbackAccepted(t)
        \/ FallbackRejected(t)
        \/ ErrorNoticeEnds(t)
        \/ TypingSignalled(t)
        \/ TypingSignalRaises(t)
        \/ TypingWakes(t)
        \/ Release(t)

Spec == Init /\ [][Next]_vars

\* chat_handler, new_chat and switch_model under an application that takes
\* an update when it arrives, so that a command's handler runs at the awaits
\* of a turn: the overlap that section 5 of the specification speaks of.
\* Line 335 asks for no such application; this specification gives the
\* handlers the interleavings an application could give them, the turns being
\* taken by one task and the commands by the other.
TurnTasks == {"t1"}
CommandTasks == {"t2"}

InitOverlap ==
    /\ user_data = [u \in Users |-> None]           \* line 30
    /\ chats = [h \in Handles |-> None]
    /\ pc = [t \in Tasks |-> "idle"]
    /\ req = [t \in Tasks |-> NoUpdate]
    /\ chat_session = [t \in Tasks |-> 0]
    /\ reply_text = [t \in Tasks |-> <<>>]
    /\ formatted = [t \in Tasks |-> <<>>]
    /\ delivered = [t \in Tasks |-> 0]
    /\ err = [t \in Tasks |-> ""]
    /\ sent = [t \in Tasks |-> <<>>]
    /\ result = [t \in Tasks |-> ""]
    /\ typing = [t \in Tasks |-> "off"]
    /\ stop_typing = [t \in Tasks |-> FALSE]
    /\ _model_cache = None                          \* line 31
    /\ _model_cache_time = 0                        \* line 32
    /\ now = 0
    /\ reg = NoCall
    /\ sp_input = <<>>
    /\ max_length = DEFAULT_MAX_LENGTH
    /\ text = <<>>
    /\ chunks = <<>>
    /\ sp_pc = "done"
    /\ fm_text = <<>>
    /\ fm_parts = <<>>
    /\ fm_result = <<>>
    /\ fm_pc = "done"
    /\ concurrent_updates = TRUE

NextOverlap ==
    \/ \E t \in CommandTasks, u \in Users : NewChat(t, u)
    \/ \E t \in CommandTasks, u \in Users, name \in ModelNames : SwitchModel(t, u, name)
    \/ \E t \in TurnTasks, u \in Users : ChatHandler(t, u, FALSE)
    \/ \E t \in Tasks :
          \/ ReplyEnds(t)
          \/ ConfirmAccepted(t)
          \/ ConfirmRejected(t)
          \/ SwitchFailedEnds(t)
          \/ ModelResponds(t)
          \/ ModelRaises(t)
          \/ TypingJoined(t)
          \/ ChunkAccepted(t)
          \/ ChunkRejected(t)
          \/ FallbackAccepted(t)
          \/ FallbackRejected(t)
          \/ ErrorNoticeEnds(t)
          \/ TypingSignalled(t)
          \/ TypingSignalRaises(t)
          \/ TypingWakes(t)
          \/ Release(t)

SpecOverlap == InitOverlap /\ [][NextOverlap]_vars

\* The turns alone, one update at a time, with the event loop's fairness to
\* the typing task: a chat action that has been sent ends, by returning or
\* by raising, and a sleep of four seconds ends.
InitTurns ==
    /\ user_data = [u \in Users |-> None]           \* line 30
    /\ chats = [h \in Handles |-> None]
    /\ pc = [t \in Tasks |-> "idle"]
    /\ req = [t \in Tasks |-> NoUpdate]
    /\ chat_session = [t \in Tasks |-> 0]
    /\ reply_text = [t \in Tasks |-> <<>>]
    /\ formatted = [t \in Tasks |-> <<>>]
    /\ delivered = [t \in Tasks |-> 0]
    /\ err = [t \in Tasks |-> ""]
    /\ sent = [t \in Tasks |-> <<>>]
    /\ result = [t \in Tasks |-> ""]
    /\ typing = [t \in Tasks |-> "off"]
    /\ stop_typing = [t \in Tasks |-> FALSE]
    /\ _model_cache = None                          \* line 31
    /\ _model_cache_time = 0                        \* line 32
    /\ now = 0
    /\ reg = NoCall
    /\ sp_input = <<>>
    /\ max_length = DEFAULT_MAX_LENGTH
    /\ text = <<>>
    /\ chunks = <<>>
    /\ sp_pc = "done"
    /\ fm_text = <<>>
    /\ fm_parts = <<>>
    /\ fm_result = <<>>
    /\ fm_pc = "done"
    /\ concurrent_updates = FALSE                   \* line 335: not asked for

NextTurns ==
    \E t \in Tasks :
        \/ \E u \in Users, photo \in BOOLEAN : ChatHandler(t, u, photo)
        \/ GetFileReturns(t)
        \/ DownloadReturns(t)
        \/ PhotoRaises(t)
        \/ ModelResponds(t)
        \/ ModelRaises(t)
        \/ TypingJoined(t)
        \/ ChunkAccepted(t)
        \/ ChunkRejected(t)
        \/ FallbackAccepted(t)
        \/ FallbackRejected(t)
        \/ ErrorNoticeEnds(t)
        \/ TypingSignalled(t)
        \/ TypingSignalRaises(t)
        \/ TypingWakes(t)
        \/ Release(t)

TypingFairness ==
    \A t \in Tasks :
        /\ WF_vars(TypingSignalled(t) \/ TypingSignalRaises(t))
        /\ WF_vars(TypingWakes(t))

SpecTurns == InitTurns /\ [][NextTurns]_vars /\ TypingFairness

\* split_message alone, on every text and max_length within the bounds.
InitSplit ==
    /\ sp_input \in TextsUpTo(SplitAlphabet, MaxTextLen)
    /\ max_length \in 1..MaxMaxLength
    /\ text = sp_input
    /\ chunks = <<>>
    /\ sp_pc = "call"
    /\ user_data = [u \in Users |-> None]
    /\ chats = [h \in Handles |-> None]
    /\ pc = [t \in Tasks |-> "idle"]
    /\ req = [t \in Tasks |-> NoUpdate]
    /\ chat_session = [t \in Tasks |-> 0]
    /\ reply_text = [t \in Tasks |-> <<>>]
    /\ formatted = [t \in Tasks |-> <<>>]
    /\ delivered = [t \in Tasks |-> 0]
    /\ err = [t \in Tasks |-> ""]
    /\ sent = [t \in Tasks |-> <<>>]
    /\ result = [t \in Tasks |-> ""]
    /\ typing = [t \in Tasks |-> "off"]
    /\ stop_typing = [t \in Tasks |-> FALSE]
    /\ _model_cache = None
    /\ _model_cache_time = 0
    /\ now = 0
    /\ reg = NoCall
    /\ fm_text = <<>>
    /\ fm_parts = <<>>
    /\ fm_result = <<>>
    /\ fm_pc = "done"
    /\ concurrent_updates = FALSE                   \* line 335: not asked for

SpecSplit == InitSplit /\ [][NextSplit]_vars

\* split_message on every text that is at most one character longer than
\* max_length: the window of one cut and the character after it.
InitCut ==
    /\ max_length \in 1..MaxWindow
    /\ sp_input \in {s \in TextsUpTo(SplitAlphabet, MaxWindow + 1) :
                         Len(s) <= max_length + 1}
    /\ text = sp_input
    /\ chunks = <<>>
    /\ sp_pc = "call"
    /\ user_data = [u \in Users |-> None]
    /\ chats = [h \in Handles |-> None]
    /\ pc = [t \in Tasks |-> "idle"]
    /\ req = [t \in Tasks |-> NoUpdate]
    /\ chat_session = [t \in Tasks |-> 0]
    /\ reply_text = [t \in Tasks |-> <<>>]
    /\ formatted = [t \in Tasks |-> <<>>]
    /\ delivered = [t \in Tasks |-> 0]
    /\ err = [t \in Tasks |-> ""]
    /\ sent = [t \in Tasks |-> <<>>]
    /\ result = [t \in Tasks |-> ""]
    /\ typing = [t \in Tasks |-> "off"]
    /\ stop_typing = [t \in Tasks |-> FALSE]
    /\ _model_cache = None
    /\ _model_cache_time = 0
    /\ now = 0
    /\ reg = NoCall
    /\ fm_text = <<>>
    /\ fm_parts = <<>>
    /\ fm_result = <<>>
    /\ fm_pc = "done"
    /\ concurrent_updates = FALSE

SpecCut == InitCut /\ [][NextSplit]_vars

\* format_for_telegram_simple alone, on every text within the bounds.
InitFormat ==
    /\ fm_text \in TokenTexts(MaxTokens)
    /\ fm_parts = <<>>
    /\ fm_result = <<>>
    /\ fm_pc = "call"
    /\ concurrent_updates = FALSE
    /\ user_data = [u \in Users |-> None]
    /\ chats = [h \in Handles |-> None]
    /\ pc = [t \in Tasks |-> "idle"]
    /\ req = [t \in Tasks |-> NoUpdate]
    /\ chat_session = [t \in Tasks |-> 0]
    /\ reply_text = [t \in Tasks |-> <<>>]
    /\ formatted = [t \in Tasks |-> <<>>]
    /\ delivered = [t \in Tasks |-> 0]
    /\ err = [t \in Tasks |-> ""]
    /\ sent = [t \in Tasks |-> <<>>]
    /\ result = [t \in Tasks |-> ""]
    /\ typing = [t \in Tasks |-> "off"]
    /\ stop_typing = [t \in Tasks |-> FALSE]
    /\ _model_cache = None
    /\ _model_cache_time = 0
    /\ now = 0
    /\ reg = NoCall
    /\ sp_input = <<>>
    /\ max_length = DEFAULT_MAX_LENGTH
    /\ text = <<>>
    /\ chunks = <<>>
    /\ sp_pc = "done"

SpecFormat == InitFormat /\ [][NextFormat]_vars

\* Lines 313-316: split_message on a segment of a formatted reply, for every
\* reply within the bounds and every max_length up to MaxWindow.
InitEscaped ==
    /\ fm_text \in TokenTexts(MaxReplyTokens)
    /\ fm_parts = <<>>
    /\ fm_result = format_for_telegram_simple(fm_text)
    /\ fm_pc = "done"
    /\ sp_input \in {fm_result[i].text : i \in 1..Len(fm_result)}
    /\ max_length \in 1..MaxWindow
    /\ text = sp_input
    /\ chunks = <<>>
    /\ sp_pc = "call"
    /\ user_data = [u \in Users |-> None]
    /\ chats = [h \in Handles |-> None]
    /\ _model_cache = None
    /\ _model_cache_time = 0
    /\ now = 0
    /\ reg = NoCall
    /\ pc = [t \in Tasks |-> "idle"]
    /\ req = [t \in Tasks |-> NoUpdate]
    /\ chat_session = [t \in Tasks |-> 0]
    /\ reply_text = [t \in Tasks |-> <<>>]
    /\ formatted = [t \in Tasks |-> <<>>]
    /\ delivered = [t \in Tasks |-> 0]
    /\ err = [t \in Tasks |-> ""]
    /\ sent = [t \in Tasks |-> <<>>]
    /\ result = [t \in Tasks |-> ""]
    /\ typing = [t \in Tasks |-> "off"]
    /\ stop_typing = [t \in Tasks |-> FALSE]
    /\ concurrent_updates = FALSE

SpecEscaped == InitEscaped /\ [][NextSplit]_vars

\* The registry alone, under every sequence of calls, outcomes and delays.
InitRegistry ==
    /\ _model_cache = None                          \* line 31
    /\ _model_cache_time = 0                        \* line 32
    /\ now = 0
    /\ reg = NoCall
    /\ user_data = [u \in Users |-> None]
    /\ chats = [h \in Handles |-> None]
    /\ pc = [t \in Tasks |-> "idle"]
    /\ req = [t \in Tasks |-> NoUpdate]
    /\ chat_session = [t \in Tasks |-> 0]
    /\ reply_text = [t \in Tasks |-> <<>>]
    /\ formatted = [t \in Tasks |-> <<>>]
    /\ delivered = [t \in Tasks |-> 0]
    /\ err = [t \in Tasks |-> ""]
    /\ sent = [t \in Tasks |-> <<>>]
    /\ result = [t \in Tasks |-> ""]
    /\ typing = [t \in Tasks |-> "off"]
    /\ stop_typing = [t \in Tasks |-> FALSE]
    /\ sp_input = <<>>
    /\ max_length = DEFAULT_MAX_LENGTH
    /\ text = <<>>
    /\ chunks = <<>>
    /\ sp_pc = "done"
    /\ fm_text = <<>>
    /\ fm_parts = <<>>
    /\ fm_result = <<>>
    /\ fm_pc = "done"
    /\ concurrent_updates = FALSE

SpecRegistry == InitRegistry /\ [][NextRegistry]_vars

----------------------------------------------------------------------------
(* The claims *)

\* C3: split_message terminates, and its chunks, concatenated in order, are
\* the input text: at every point of the loop the chunks cut so far followed
\* by what is left are the input, every pass of the loop shortens what is
\* left, and the chunks returned are the input.
C3_ChunksConcatenateToInput ==
    /\ sp_pc \in {"loop", "tail"} => Concat(chunks) \o text = sp_input
    /\ sp_pc = "loop" /\ Len(text) > max_length =>
          Len(CutRest(text, max_length)) < Len(text)
    /\ sp_pc = "done" => Concat(chunks) = sp_input

\* C3's case: a text cut by two passes of the loop into three chunks that
\* differ, the last one shorter than max_length.
C3_Witness ==
    /\ sp_pc = "done"
    /\ Len(chunks) = 3
    /\ chunks[1] # chunks[2]
    /\ Len(chunks[3]) < max_length

\* C4: split_message returns at least one chunk, no chunk is longer than
\* max_length, and no chunk of a text longer than max_length is empty.
C4_ChunksWithinMaxLength ==
    sp_pc = "done" =>
        /\ Len(chunks) >= 1
        /\ \A i \in 1..Len(chunks) : Len(chunks[i]) <= max_length
        /\ Len(sp_input) > max_length => \A i \in 1..Len(chunks) : chunks[i] # <<>>

\* C4's case: a text longer than max_length whose first chunk is cut after a
\* newline, before the window's end.
C4_Witness ==
    /\ sp_pc = "done"
    /\ Len(sp_input) > max_length
    /\ Len(chunks[1]) < max_length
    /\ chunks[1][Len(chunks[1])] = NL

\* The calls of get_available_models seen so far, as reg holds the last one.
Called == reg.ret # None

\* C6: a call made while a populated cache is younger than 300 seconds makes
\* no remote query, returns the cached mapping and leaves the cache and its
\* time as they are; a call made at 300 seconds or more (or with no cache)
\* makes exactly one remote query; whenever a call replaces the cache, the
\* cache's time is the time of that call.
C6_CacheServedWithinTtl ==
    Called =>
        IF reg.had # None /\ reg.at - reg.had_time < 300
        THEN /\ reg.queries = 0
             /\ reg.ret = reg.had
             /\ _model_cache = reg.had
             /\ _model_cache_time = reg.had_time
        ELSE /\ reg.queries = 1
             /\ \/ _model_cache = reg.had /\ _model_cache_time = reg.had_time
                \/ _model_cache_time = reg.at

\* C6's case: a call served from a cache 299 seconds old.
C6_Witness ==
    /\ Called
    /\ reg.had # None
    /\ reg.at - reg.had_time = 299
    /\ reg.queries = 0

\* The mapping of a listing read to its end.
CompleteListings == {Collected(L, Len(L)) : L \in Listings}

\* C7: get_available_models raises nothing; when the remote query fails it
\* returns the cache it found, stale or not, and without one the fallback
\* set, which it caches; and the cache is never a listing that failed
\* part-way: it is empty, the fallback set or a complete listing.
C7_FailuresAbsorbed ==
    /\ Called =>
          /\ ~reg.raised
          /\ reg.failed =>
                IF reg.had # None
                THEN reg.ret = reg.had /\ _model_cache = reg.had
                ELSE reg.ret = Some(FallbackModels) /\ _model_cache = Some(FallbackModels)
    /\ \/ _model_cache = None
       \/ _model_cache = Some(FallbackModels)
       \/ \E m \in CompleteListings : _model_cache = Some(m)

\* C7's case: the remote query fails after the cache has gone stale, and the
\* stale cache, a complete listing, is returned.
C7_Witness ==
    /\ Called
    /\ reg.failed
    /\ reg.had # None
    /\ reg.at - reg.had_time >= 300
    /\ reg.ret = reg.had
    /\ reg.had = Some(Collected(ListingFull, Len(ListingFull)))

\* The handler of task t takes a step.
Moves(t) == pc'[t] # pc[t]

\* A switch request, by command or by button.
IsSwitch(r) == r.handler \in {"switch_model", "model_callback"}

\* C1: a switch request whose model name fails validation leaves the session
\* store exactly as it was, at every step of its handler, and the one message
\* it sends is the switch-failed text, as plain text.
C1_InvalidSwitchKeepsSession ==
    [][\A t \in Tasks :
          (Moves(t) /\ IsSwitch(req'[t]) /\ req'[t].arg \in RejectedNames) =>
              /\ user_data' = user_data
              /\ chats' = chats
              /\ pc'[t] = "switch_failed" =>
                    sent'[t] = << [text |-> <<"Switch failed: ", "invalid model">>,
                                   parse_mode |-> PlainText,
                                   status |-> "sending"] >>
              /\ (pc[t] = "switch_failed" /\ pc'[t] = "done") =>
                    /\ Len(sent'[t]) = 1
                    /\ sent'[t][1].text = <<"Switch failed: ", "invalid model">>
                    /\ sent'[t][1].parse_mode = PlainText]_vars

\* C1's case: a user who had switched to gemini-1.5-pro pressed the button of
\* a name the constructor rejects; the failure text has been delivered and the
\* session is still on gemini-1.5-pro.
C1_Witness ==
    \E t \in Tasks :
        /\ pc[t] = "done"
        /\ req[t].handler = "model_callback"
        /\ req[t].arg \in RejectedNames
        /\ sent[t] # <<>>
        /\ sent[t][1].status = "ok"
        /\ user_data[req[t].user_id] # None
        /\ Value(user_data[req[t].user_id]).model_name = "gemini-1.5-pro"

\* C2: when the model call of a turn fails, the handler sends exactly one
\* message, the error notice, as plain text, and no chunk of a reply; and
\* neither the failure nor the notice writes the session store.
C2_ModelFailureOneNotice ==
    [][\A t \in Tasks :
          /\ (pc[t] = "send_message" /\ pc'[t] = "error_notice") =>
                /\ user_data' = user_data
                /\ formatted'[t] = <<>>
                /\ sent'[t] = << [text |-> <<"Error: ", "model call failed">>,
                                  parse_mode |-> PlainText,
                                  status |-> "sending"] >>
          /\ (pc[t] = "error_notice" /\ err[t] = "model call failed" /\ Moves(t)) =>
                /\ user_data' = user_data
                /\ pc'[t] = "done"
                /\ formatted'[t] = <<>>
                /\ Len(sent'[t]) = 1
                /\ sent'[t][1].text = <<"Error: ", "model call failed">>
                /\ sent'[t][1].parse_mode = PlainText]_vars

\* C2's case: the model call of a turn on a session that has a turn in its
\* history failed, and the notice has been delivered.
C2_Witness ==
    \E t \in Tasks :
        /\ pc[t] = "done"
        /\ req[t].handler = "chat_handler"
        /\ err[t] = "model call failed"
        /\ result[t] = "returned"
        /\ Len(sent[t]) = 1
        /\ chat_session[t] = Value(user_data[req[t].user_id]).chat
        /\ Value(chats[chat_session[t]]).history # <<>>

\* The error notice among the messages of a turn.
IsNotice(m) == m.text # <<>> /\ m.text[1] = "Error: "

\* s with its backslashes taken out.
RECURSIVE WithoutBackslashes(_)
WithoutBackslashes(s) ==
    IF s = <<>> THEN <<>>
    ELSE IF Head(s) = BS THEN WithoutBackslashes(Tail(s))
    ELSE <<Head(s)>> \o WithoutBackslashes(Tail(s))

\* C5: in the delivery of a reply, the formatted sends are the chunks in
\* their order, each once; a plain send follows the rejected formatted send of
\* the same chunk, with that chunk's text less its backslashes, and a rejected
\* formatted send is followed by just that; after an accepted send, formatted
\* or plain, comes the next chunk formatted; the error notice follows a
\* rejected plain send and nothing else; a turn that returns has sent every
\* chunk.
C5_FallbackIsPerChunk ==
    \A t \in Tasks :
        (req[t].handler = "chat_handler" /\ formatted[t] # <<>>) =>
            LET log == sent[t]
                F == formatted[t]
                Formatted == {i \in 1..Len(log) : log[i].parse_mode = MARKDOWN_V2}
                Plain == {i \in 1..Len(log) :
                             log[i].parse_mode = PlainText /\ ~IsNotice(log[i])}
                Notices == {i \in 1..Len(log) : IsNotice(log[i])}
                Rank(i) == Cardinality({j \in Formatted : j <= i})
            IN  /\ \A i \in Formatted :
                      /\ Rank(i) <= Len(F)
                      /\ log[i].text = F[Rank(i)].text
                      /\ log[i].status = "rejected" => i + 1 \in Plain
                      /\ log[i].status = "ok" => (i = Len(log) \/ i + 1 \in Formatted)
                /\ \A i \in Plain :
                      /\ i - 1 \in Formatted
                      /\ log[i - 1].status = "rejected"
                      /\ log[i].text = WithoutBackslashes(log[i - 1].text)
                      /\ log[i].status = "ok" => (i = Len(log) \/ i + 1 \in Formatted)
                      /\ log[i].status = "rejected" => i + 1 \in Notices
                /\ \A i \in Notices :
                      /\ i = Len(log)
                      /\ i - 1 \in Plain
                      /\ log[i - 1].status = "rejected"
                /\ (pc[t] = "done" /\ Notices = {}) =>
                      /\ result[t] = "returned"
                      /\ Cardinality(Formatted) = Len(F)

\* C5's case: the first chunk of two was rejected as formatted and accepted
\* as plain text, which differs from it, and the second was then accepted as
\* formatted.
C5_Witness ==
    \E t \in Tasks :
        /\ pc[t] = "done"
        /\ result[t] = "returned"
        /\ Len(formatted[t]) = 2
        /\ Len(sent[t]) = 3
        /\ sent[t][1].status = "rejected"
        /\ sent[t][2].parse_mode = PlainText
        /\ sent[t][2].status = "ok"
        /\ sent[t][2].text # sent[t][1].text
        /\ sent[t][3].parse_mode = MARKDOWN_V2
        /\ sent[t][3].status = "ok"

\* The step of a switch that writes the session: the one that sends the
\* confirmation.
SwitchWrites(t) == pc[t] # "confirm" /\ pc'[t] = "confirm"

\* C8: a switch that succeeds puts in the store, in one step, a session whose
\* model_name is the name asked for and whose chat is a new object on that
\* model with no turn in it, whatever the session before; the sessions of the
\* other users stay; and every session in the store has a chat on the model
\* its model_name says.
C8_SwitchReplacesSession ==
    /\ [][\A t \in Tasks :
             SwitchWrites(t) =>
                 LET u == req'[t].user_id
                     name == req'[t].arg
                 IN  /\ user_data'[u] # None
                     /\ Value(user_data'[u]).model_name = name
                     /\ chats[Value(user_data'[u]).chat] = None
                     /\ user_data[u] # None =>
                           Value(user_data'[u]).chat # Value(user_data[u]).chat
                     /\ chats'[Value(user_data'[u]).chat] =
                           Some([model |-> name, history |-> <<>>])
                     /\ \A v \in Users \ {u} : user_data'[v] = user_data[v]]_vars
    /\ [](\A u \in Users :
             user_data[u] # None =>
                 /\ chats[Value(user_data[u]).chat] # None
                 /\ Value(chats[Value(user_data[u]).chat]).model =
                       Value(user_data[u]).model_name)

\* C8's case: a switch to gemini-1.5-pro has written the session and its
\* confirmation is in flight, while the other user has a session with a turn.
C8_Witness ==
    \E t \in Tasks : \E v \in Users :
        /\ pc[t] = "confirm"
        /\ req[t].arg = "gemini-1.5-pro"
        /\ Value(user_data[req[t].user_id]).model_name = "gemini-1.5-pro"
        /\ Value(chats[Value(user_data[req[t].user_id]).chat]).history = <<>>
        /\ v # req[t].user_id
        /\ user_data[v] # None
        /\ Value(chats[Value(user_data[v]).chat]).history # <<>>

\* C9: /new puts in the store a session with the model_name the user had,
\* the default for a user with no session, and a new chat on that model with
\* no turn in it.
C9_ResetKeepsModel ==
    [][\A t \in Tasks :
          (pc[t] = "idle" /\ req'[t].handler = "new_chat") =>
              LET u == req'[t].user_id
                  kept == IF user_data[u] = None
                          THEN "gemini-2.0-flash"
                          ELSE Value(user_data[u]).model_name
              IN  /\ user_data'[u] # None
                  /\ Value(user_data'[u]).model_name = kept
                  /\ chats[Value(user_data'[u]).chat] = None
                  /\ chats'[Value(user_data'[u]).chat] =
                        Some([model |-> kept, history |-> <<>>])]_vars

\* C9's case: /new by a user on gemini-1.5-pro: the reply is in flight and the
\* session is on gemini-1.5-pro with an empty history.
C9_Witness ==
    \E t \in Tasks :
        /\ pc[t] = "reply"
        /\ req[t].handler = "new_chat"
        /\ Value(user_data[req[t].user_id]).model_name = "gemini-1.5-pro"
        /\ Value(chats[Value(user_data[req[t].user_id]).chat]).history = <<>>

\* C10: get_user_chat, which start and chat_handler call first, makes a
\* session, on the default model and with no turn, only for a user who has
\* none, and for any other leaves the store as it is and gives the chat of the
\* stored session; a user's session is never removed, and its model_name
\* changes only in the step of a switch to that name.
C10_SessionCreatedOnce ==
    [][/\ \A t \in Tasks :
             (pc[t] = "idle" /\ req'[t].handler \in {"start", "chat_handler"}) =>
                 LET u == req'[t].user_id
                 IN  IF user_data[u] # None
                     THEN /\ user_data' = user_data
                          /\ chats' = chats
                          /\ req'[t].handler = "chat_handler" =>
                                chat_session'[t] = Value(user_data[u]).chat
                     ELSE /\ user_data'[u] # None
                          /\ Value(user_data'[u]).model_name = "gemini-2.0-flash"
                          /\ chats[Value(user_data'[u]).chat] = None
                          /\ chats'[Value(user_data'[u]).chat] =
                                Some([model |-> "gemini-2.0-flash", history |-> <<>>])
                          /\ \A v \in Users \ {u} : user_data'[v] = user_data[v]
       /\ \A u \in Users :
             user_data[u] # None =>
                 /\ user_data'[u] # None
                 /\ Value(user_data'[u]).model_name # Value(user_data[u]).model_name =>
                       \E t \in Tasks :
                           /\ SwitchWrites(t)
                           /\ req'[t].user_id = u
                           /\ req'[t].arg = Value(user_data'[u]).model_name]_vars

\* C10's case: a turn has begun for a user whose session, on gemini-1.5-pro,
\* already has a turn in it, and the handler holds that session's chat.
C10_Witness ==
    \E t \in Tasks :
        /\ pc[t] = "send_message"
        /\ req[t].handler = "chat_handler"
        /\ Value(user_data[req[t].user_id]).model_name = "gemini-1.5-pro"
        /\ chat_session[t] = Value(user_data[req[t].user_id]).chat
        /\ Value(chats[chat_session[t]]).history # <<>>

\* Where sep occurs in s, wholly inside the first max characters and starting
\* after max / 2.
LateOccurrences(s, sep, max) ==
    {p \in 0..max :
        /\ p + Len(sep) <= max
        /\ 2 * p > max
        /\ \A i \in 1..Len(sep) : s[p + i] = sep[i]}

\* The cut the priority rule asks for: after the last late occurrence of the
\* first tier that has one, else at max.
PriorityCut(s, max) ==
    LET tiers == << <<NL, NL>>, <<NL>>, <<".", " ">>, <<" ">> >>
        found == {k \in 1..4 : LateOccurrences(s, tiers[k], max) # {}}
    IN  IF found = {} THEN max
        ELSE LET k == CHOOSE j \in found : \A i \in found : j <= i
                 at == LateOccurrences(s, tiers[k], max)
             IN  (CHOOSE p \in at : \A q \in at : q <= p) + Len(tiers[k])

\* C11: every pass of split_message's loop cuts the text right after the last
\* occurrence, wholly inside the first max_length characters and starting
\* after max_length / 2, of the first of double newline, newline, full stop
\* followed by a space, and space that has such an occurrence, and at
\* max_length when none has: the chunk is the text up to there and the rest goes on from there.
C11_CutAtHighestPriority ==
    [][(sp_pc = "loop" /\ Len(text) > max_length) =>
          LET cut == PriorityCut(text, max_length)
          IN  /\ chunks' = Append(chunks, SubSeq(text, 1, cut))
              /\ text' = SubSeq(text, cut + 1, Len(text))]_vars

\* C11's case: with max_length 7 the text is cut after a double newline that
\* starts at position 4, though a space follows it inside the window.
C11_Witness ==
    /\ sp_pc = "done"
    /\ max_length = 7
    /\ Len(sp_input) = 8
    /\ SubSeq(sp_input, 5, 7) = <<NL, NL, " ">>
    /\ Len(chunks) = 2
    /\ Len(chunks[1]) = 6

\* The reserved characters, as the claims list them.
Reserved ==
    {"_", "*", "[", "]", "(", ")", "~", BT, ">", "#", "+", "-", "=", "|",
     "{", "}", ".", "!"}

\* How many of the first i characters of s are reserved.
ReservedUpTo(s, i) == Cardinality({j \in 1..i : s[j] \in Reserved})

\* out is s with one backslash put before every reserved character and
\* nothing else changed: every character of s is in out, in order, a
\* reserved one right after a backslash, and out has no other character.
IsEscapeOf(out, s) ==
    /\ Len(out) = Len(s) + ReservedUpTo(s, Len(s))
    /\ \A i \in 1..Len(s) :
          /\ out[i + ReservedUpTo(s, i)] = s[i]
          /\ s[i] \in Reserved => out[i + ReservedUpTo(s, i) - 1] = BS

\* p begins with three backticks.
BeginsWithFence(p) == Len(p) >= 3 /\ p[1] = BT /\ p[2] = BT /\ p[3] = BT

\* The formatter visits a part that does not start with a fence and is not
\* blank: a non-code span it makes a segment of.
VisitsTextSpan ==
    /\ fm_pc = "loop"
    /\ fm_parts # <<>>
    /\ ~BeginsWithFence(Head(fm_parts))
    /\ \E i \in 1..Len(Head(fm_parts)) : Head(fm_parts)[i] \notin {" ", NL}

\* C12: the segment the formatter makes of a non-code span is a text segment
\* in which every reserved character of the span has exactly one backslash put
\* before it, every character of the span is copied in order, and no other
\* backslash is put in; and the reply Hi **there**! becomes the one text
\* segment Hi \*\*there\*\*\!.
C12_ReservedEscapedOnce ==
    /\ [][VisitsTextSpan =>
             /\ Len(fm_result') = Len(fm_result) + 1
             /\ fm_result'[Len(fm_result')].part_type = "text"
             /\ IsEscapeOf(fm_result'[Len(fm_result')].text, Head(fm_parts))]_vars
    /\ [](format_for_telegram_simple(
              <<"H", "i", " ", "*", "*", "t", "h", "e", "r", "e", "*", "*", "!">>)
          = << [part_type |-> "text",
                text |-> <<"H", "i", " ", BS, "*", BS, "*", "t", "h", "e", "r", "e",
                           BS, "*", BS, "*", BS, "!">>] >>)

\* C12's case: the text a. ` with a full stop and a backtick has become one
\* text segment with a backslash before each of the two.
C12_Witness ==
    /\ fm_pc = "done"
    /\ fm_text = <<"a", ".", " ", BT>>
    /\ fm_result = << [part_type |-> "text",
                       text |-> <<"a", BS, ".", " ", BS, BT>>] >>

\* p is a fenced code block: it begins with a fence and another fence closes
\* it.
IsFencedBlock(p) ==
    /\ BeginsWithFence(p)
    /\ \E i \in 3..(Len(p) - 3) : p[i + 1] = BT /\ p[i + 2] = BT /\ p[i + 3] = BT

\* C13: the parts the formatter visits are the spans of the input, in order;
\* of every span outside the fenced code blocks that is not blank, one that
\* begins with a fence nothing closes included, it makes one text segment,
\* put after the segments made so far; of a blank or empty span it makes no
\* segment.
C13_TextSegmentPerSpan ==
    [][/\ (fm_pc = "call" /\ fm_pc' = "loop") => Concat(fm_parts') = fm_text
       /\ (fm_pc = "loop" /\ fm_parts # <<>> /\ ~IsFencedBlock(Head(fm_parts))) =>
             /\ fm_parts' = Tail(fm_parts)
             /\ IF \E i \in 1..Len(Head(fm_parts)) : Head(fm_parts)[i] \notin {" ", NL}
                THEN /\ Len(fm_result') = Len(fm_result) + 1
                     /\ SubSeq(fm_result', 1, Len(fm_result)) = fm_result
                     /\ fm_result'[Len(fm_result')].part_type = "text"
                ELSE fm_result' = fm_result]_vars

\* The body of the fenced block p: what lies between the opening fence, the
\* run of word characters after it and one newline if there is one, and the
\* closing fence.
BlockBody(p) ==
    LET runs == {j \in 3..(Len(p) - 3) : \A i \in 4..j : p[i] \in WordChars}
        tag_end == CHOOSE j \in runs : \A k \in runs : k <= j
        from == IF tag_end < Len(p) - 3 /\ p[tag_end + 1] = NL
                THEN tag_end + 1 ELSE tag_end
    IN  SubSeq(p, from + 1, Len(p) - 3)

\* b without one newline at its end, and b without any newline at its end.
LessOneNewline(b) ==
    IF b # <<>> /\ b[Len(b)] = NL THEN SubSeq(b, 1, Len(b) - 1) ELSE b

LessAllNewlines(b) ==
    LET ends == {j \in 0..Len(b) : j = 0 \/ b[j] # NL}
    IN  SubSeq(b, 1, CHOOSE j \in ends : \A k \in ends : k <= j)

\* out is an untagged fence around the escaped b: fence, newline, b escaped,
\* newline, fence.
IsFenceAround(out, b) ==
    /\ Len(out) >= 8
    /\ SubSeq(out, 1, 4) = <<BT, BT, BT, NL>>
    /\ SubSeq(out, Len(out) - 3, Len(out)) = <<NL, BT, BT, BT>>
    /\ IsEscapeOf(SubSeq(out, 5, Len(out) - 4), b)

\* The formatter visits a fenced code block.
VisitsFencedBlock ==
    /\ fm_pc = "loop"
    /\ fm_parts # <<>>
    /\ IsFencedBlock(Head(fm_parts))

\* C14 as claimed: of every fenced code block the formatter makes one code
\* segment, an untagged fence around the escaped body less exactly one
\* newline at its end, so that a body ending in two newlines keeps one.
C14_OneNewlineStripped ==
    [][VisitsFencedBlock =>
          /\ Len(fm_result') = Len(fm_result) + 1
          /\ fm_result'[Len(fm_result')].part_type = "code"
          /\ IsFenceAround(fm_result'[Len(fm_result')].text,
                           LessOneNewline(BlockBody(Head(fm_parts))))]_vars

\* C14, amended: of every fenced code block the formatter makes one code
\* segment, an untagged fence around the escaped body less all the newlines
\* at its end: every other character of the body is kept, escaped, bodies
\* that differ only in the newlines at their end give the same segment, and a
\* body ending in two newlines keeps none.
C14_AllNewlinesStripped ==
    [][VisitsFencedBlock =>
          /\ Len(fm_result') = Len(fm_result) + 1
          /\ SubSeq(fm_result', 1, Len(fm_result)) = fm_result
          /\ fm_result'[Len(fm_result')].part_type = "code"
          /\ IsFenceAround(fm_result'[Len(fm_result')].text,
                           LessAllNewlines(BlockBody(Head(fm_parts))))]_vars

\* C14's case: a block whose body, a full stop, is followed by two newlines
\* has become the code segment with the escaped full stop and neither newline.
C14_Witness ==
    /\ fm_pc = "done"
    /\ fm_text = <<BT, BT, BT, NL, ".", NL, NL, BT, BT, BT>>
    /\ fm_result = << [part_type |-> "code",
                       text |-> <<BT, BT, BT, NL, BS, ".", NL, BT, BT, BT>>] >>

\* The delivery of task t's reply has begun: a chunk has been handed to the
\* platform.
DeliveryBegun(t) ==
    /\ req[t].handler = "chat_handler"
    /\ formatted[t] # <<>>
    /\ sent[t] # <<>>

\* C15: from the moment the first chunk of a turn's reply is handed to the
\* platform, the turn's stop event is set and its typing task has ended: it
\* is at no await, neither sending a chat action nor sleeping before the
\* next.
C15_TypingEndsBeforeDelivery ==
    \A t \in Tasks :
        DeliveryBegun(t) => (stop_typing[t] /\ typing[t] = "off")

\* C15's case: the first chunk of a reply is in flight, the stop event is set
\* and the typing task has ended.
C15_Witness ==
    \E t \in Tasks :
        /\ pc[t] = "chunk"
        /\ Len(sent[t]) = 1
        /\ sent[t][1].status = "sending"
        /\ stop_typing[t]
        /\ typing[t] = "off"

\* The chat of the session the store holds for u.
StoredChat(u) == Value(chats[Value(user_data[u]).chat])

\* The session of a turn's user has been replaced since the turn bound its
\* chat at line 291.
Overtaken(t) ==
    /\ req[t].handler = "chat_handler"
    /\ pc[t] # "idle"
    /\ chat_session[t] # Value(user_data[req[t].user_id]).chat

\* A history whose last exchange is a turn's.
EndsWithExchange(h) ==
    /\ Len(h) >= 2
    /\ SubSeq(h, Len(h) - 1, Len(h)) = <<"user", "model">>

\* The model has answered the turn.
Answered(t) == req[t].handler = "chat_handler" /\ reply_text[t] # <<>>

\* C16: when a reset or a model switch of a user is processed while a turn of
\* that user awaits the model, the store holds the session the reset or the
\* switch wrote, with an empty conversation, from then until the turn has
\* ended; the model's answer leaves the store and the stored conversation
\* as they are, the exchange is recorded on the chat that was replaced, and
\* the turn goes on to deliver the reply with no error.
C16_OvertakenTurnKeepsNewSession ==
    /\ [](\A t \in Tasks :
            Overtaken(t) =>
                /\ StoredChat(req[t].user_id).history = <<>>
                /\ Answered(t) =>
                      EndsWithExchange(Value(chats[chat_session[t]]).history))
    /\ [][\A t \in Tasks :
            (Overtaken(t) /\ pc[t] = "send_message" /\ Answered(t)') =>
                /\ user_data' = user_data
                /\ StoredChat(req[t].user_id)' = StoredChat(req[t].user_id)
                /\ Value(chats'[chat_session[t]]).history =
                      Value(chats[chat_session[t]]).history \o <<"user", "model">>
                /\ err'[t] = ""
                /\ pc'[t] \in {"join", "chunk", "done"}]_vars

\* C16's case: a turn and a command of the same user have both ended, the
\* command having replaced the session while the turn awaited the model.
C16_Witness ==
    \E t \in TurnTasks :
        /\ pc[t] = "done" /\ result[t] = "returned"
        /\ Overtaken(t) /\ Answered(t)
        /\ \A o \in CommandTasks : pc[o] = "idle"
        /\ StoredChat(req[t].user_id).history = <<>>
        /\ EndsWithExchange(Value(chats[chat_session[t]]).history)


\* The user a step of task t is taken for.
ActsFor(t) == IF pc[t] = "idle" THEN req'[t].user_id ELSE req[t].user_id

\* C17: a step a handler takes for one user leaves the stored session of
\* every other user as it is: its absence, or its chat handle, its model
\* name and the chat's conversation.
C17_OtherUsersUntouched ==
    [][\A t \in Tasks, b \in Users :
          (Moves(t) /\ ActsFor(t) # b) =>
              /\ user_data'[b] = user_data[b]
              /\ HasSession(b) =>
                    chats'[Value(user_data[b]).chat] = chats[Value(user_data[b]).chat]]_vars

\* C17's case: a turn of one user has been answered and has ended while a
\* model switch of another user, whose session is now on the model asked
\* for, awaits its confirmation; the first user's session is the one the
\* turn began with.
C17_Witness ==
    \E t \in TurnTasks, o \in CommandTasks :
        /\ pc[t] = "done" /\ Answered(t)
        /\ pc[o] = "confirm"
        /\ req[o].user_id # req[t].user_id
        /\ Value(user_data[req[o].user_id]).model_name = req[o].arg
        /\ req[o].arg # DEFAULT_MODEL
        /\ Value(user_data[req[t].user_id]).model_name = DEFAULT_MODEL
        /\ chat_session[t] = Value(user_data[req[t].user_id]).chat

\* A switch request has replaced the session (lines 247-250, 269-272) and
\* awaits the confirmation it sent.
HasReplacedSession(t) == IsSwitch(req[t]) /\ pc[t] = "confirm"

\* C18: whenever a switch request comes to report "Switch failed", it has not
\* replaced the stored session: the session is replaced only by requests
\* that go on to report success, whatever fails after the validation.
C18_FailedSwitchKeepsSession ==
    [][\A t \in Tasks :
          (Moves(t) /\ pc'[t] = "switch_failed") => ~HasReplacedSession(t)]_vars

\* The cut after chunk i of cs falls between a backslash and the reserved
\* character after it.
CutInsideEscape(cs, i) ==
    /\ cs[i] # <<>> /\ cs[i][Len(cs[i])] = BS
    /\ cs[i + 1] # <<>> /\ cs[i + 1][1] \in Reserved

\* C19: when split_message cuts a segment of a formatted reply, no cut falls
\* between an escaping backslash and the reserved character it escapes: no
\* chunk ends with a backslash whose character begins the next chunk.
C19_NoCutInsideEscape ==
    sp_pc = "done" => \A i \in 1..(Len(chunks) - 1) : ~CutInsideEscape(chunks, i)

\* The model call of a turn has completed, by returning or by raising.
ModelCallCompleted(t) ==
    /\ req[t].handler = "chat_handler"
    /\ \/ reply_text[t] # <<>>
       \/ err[t] = "model call failed"

\* C20: in every turn whose model call completes, by returning or by raising,
\* the stop event is set at that step and the typing task of the turn
\* eventually ends, awaited or not; and a chat action that raises ends the
\* typing task alone: the handler is where it was, and no message is sent.
C20_TypingTaskEnds ==
    /\ \A t \in Tasks : ModelCallCompleted(t) ~> (typing[t] = "off")
    /\ \A t \in Tasks : [](stop_typing[t] => <>(typing[t] = "off"))
    /\ [][\A t \in Tasks :
            /\ (pc[t] = "send_message" /\ Moves(t)) =>
                  (stop_typing'[t] /\ ModelCallCompleted(t)')
            /\ (typing[t] = "signal" /\ typing'[t] = "off") =>
                  UNCHANGED <<taskvars, storevars, stop_typing>>]_vars

\* C20's case: the model call of a turn raised, the handler has ended with
\* its notice delivered and without awaiting the typing task, and the task
\* has ended.
C20_Witness ==
    \E t \in Tasks :
        /\ pc[t] = "done"
        /\ err[t] = "model call failed"
        /\ sent[t][1].status = "ok"
        /\ stop_typing[t] /\ typing[t] = "off"

====
